---- MODULE Spec2Model ----
(***************************************************************************)
(* Static-initializer cycle checks of the compiler:                        *)
(*   - check_static_initializer_acyclic (rustc_const_eval), the early run  *)
(*     over the statics declared in the HIR, edges found by walking the    *)
(*     constant-evaluated allocations;                                     *)
(*   - check_mono_item_graph / check_static_initializers_are_acyclic       *)
(*     (rustc_monomorphize), the late run over the monomorphized items,    *)
(*     edges read from the usage map, gated by the target option           *)
(*     static_initializer_must_be_acyclic.                                 *)
(* Node handles are 1-based here (Rust: 0-based); 0 stands for None.       *)
(***************************************************************************)
EXTENDS Integers, Sequences, FiniteSets, TLC

\* ------------------------------------------------------------------ bounds
NumBlobs == 2
MaxPtrs == 2
MaxTravPtrs == 3
MaxEdges == 3
MaxUses == 3
MaxEmptySccs == 1

\* ------------------------------------------------------- identities, kinds
\* LocalDefId of the statics of the crate: three of them, enough for two
\* components side by side, one of them with two members. ForeignDefIds are
\* statics of another crate (DefId::as_local gives None for them).
LocalDefIds == {1, 2, 3}
ForeignDefIds == {4}
DefIds == LocalDefIds \cup ForeignDefIds

\* AllocId, tagged by what tcx.try_get_global_alloc resolves it to.
StaticAlloc(d) == <<"Static", d>>
MemoryAlloc(b) == <<"Memory", b>>
FunctionAlloc == <<"Function", 1>>
BlobIds == 1..NumBlobs
AllocIds == {StaticAlloc(d) : d \in DefIds} \cup {MemoryAlloc(b) : b \in BlobIds}
              \cup {FunctionAlloc}

\* MonoItem::Static(def_id) and MonoItem::Fn(..)
MonoStatic(d) == <<"Static", d>>
MonoFn == <<"Fn", 1>>
MonoItems == {MonoStatic(d) : d \in DefIds} \cup {MonoFn}

\* HIR free items: hir::ItemKind::Static and an item of another kind.
HirStatic(d) == [kind |-> "Static", def_id |-> d]
HirFn == [kind |-> "Fn", def_id |-> 0]

VARIABLES
  hir_items,      \* tcx.hir_free_items(): sequence of HIR items
  static_init,    \* tcx.eval_static_initializer: LocalDefId -> [ok, ptrs]
  memory,         \* GlobalAlloc::Memory contents: blob -> provenance ptrs
  acyclic_flag,   \* target.options.static_initializer_must_be_acyclic
  mono_items,     \* the mono item slice handed to check_mono_item_graph
  used_map,       \* usage_map.used_map: MonoItem -> Seq(MonoItem), partial
  pc,             \* "start" -> "early_done" -> "done"; "collect" inside
                  \* collect_referenced_local_statics
  e_statics,      \* early run: `statics`, the candidate FxIndexSet
  e_succ,         \* early run: `graph.succ`
  l_statics,      \* late run: `statics`, the candidate FxIndexSet
  l_succ,         \* late run: the rows `graph.successors` yields
  diags,          \* the diagnostic sink tcx.dcx(), in emission order
  result,         \* return value of check_static_initializer_acyclic
  aborted,        \* the late run panicked
  trav            \* loop state of collect_referenced_local_statics

vars == <<hir_items, static_init, memory, acyclic_flag, mono_items, used_map,
          pc, e_statics, e_succ, l_statics, l_succ, diags, result, aborted,
          trav>>

\* ------------------------------------------------------------- FxIndexSet
Range(s) == {s[i] : i \in DOMAIN s}

\* A plain push: nothing is deduplicated.
IndexSetInsertAlways(set, x) == Append(set, x)

\* FxIndexSet::insert: keeps the first occurrence, insertion order.
IndexSetInsert(set, x) == IF x \in Range(set) THEN set ELSE Append(set, x)

RECURSIVE IndexSetExtend(_, _)
\* FxIndexSet::extend / collect
IndexSetExtend(set, items) ==
  IF items = <<>> THEN set
  ELSE IndexSetExtend(IndexSetInsert(set, Head(items)), Tail(items))

\* FxIndexSet::get_index_of, 0 for None
GetIndexOf(set, x) ==
  IF x \in Range(set) THEN CHOOSE i \in DOMAIN set : set[i] = x ELSE 0

\* DefId::as_local, 0 for None
AsLocal(def_id) == IF def_id \in LocalDefIds THEN def_id ELSE 0

\* --------------------------------------- early run: allocation traversal
\* collect_referenced_local_statics up to the loop: the root allocation's
\* pointers seed the frontier.
TravInit(root_ptrs) ==
  [alloc_ids |-> IndexSetExtend(<<>>, root_ptrs), i |-> 1,
   referenced_nodes |-> <<>>, done |-> FALSE]

\* What one classification adds to referenced_nodes.
TravPushStatic(t, cands, def_id) ==
  LET local_def == AsLocal(def_id)
      node == IF local_def # 0 THEN GetIndexOf(cands, local_def) ELSE 0
  IN IF node # 0 THEN Append(t.referenced_nodes, node) ELSE t.referenced_nodes

\* The loop with the Memory arm not scanning the blob.
TravStepNoExpansion(t, cands, mem) ==
  IF t.i > Len(t.alloc_ids) THEN [t EXCEPT !.done = TRUE]
  ELSE LET alloc_id == t.alloc_ids[t.i]
       IN CASE alloc_id[1] = "Static" ->
                 [t EXCEPT !.referenced_nodes = TravPushStatic(t, cands, alloc_id[2]),
                           !.i = t.i + 1]
            [] OTHER -> [t EXCEPT !.i = t.i + 1]

\* One iteration of `for i in 0..`: classify alloc_ids[i], or break.
TravStep(t, cands, mem) ==
  IF t.i > Len(t.alloc_ids) THEN [t EXCEPT !.done = TRUE]
  ELSE LET alloc_id == t.alloc_ids[t.i]
       IN CASE alloc_id[1] = "Static" ->
                 [t EXCEPT !.referenced_nodes = TravPushStatic(t, cands, alloc_id[2]),
                           !.i = t.i + 1]
            [] alloc_id[1] = "Memory" ->
                 [t EXCEPT !.alloc_ids = IndexSetExtend(t.alloc_ids, mem[alloc_id[2]]),
                           !.i = t.i + 1]
            [] OTHER -> [t EXCEPT !.i = t.i + 1]

RECURSIVE TravRun(_, _, _)
TravRun(t, cands, mem) ==
  IF t.done THEN t ELSE TravRun(TravStep(t, cands, mem), cands, mem)

CollectReferencedLocalStatics(root_ptrs, cands, mem) ==
  TravRun(TravInit(root_ptrs), cands, mem).referenced_nodes

\* The candidate set of the early run: the HIR items of kind Static.
EarlyStatics(items) ==
  LET kept == SelectSeq(items, LAMBDA item : item.kind = "Static")
  IN IndexSetExtend(<<>>, [k \in DOMAIN kept |-> kept[k].def_id])

\* A failed evaluation answered with an edge to every candidate.
EarlyRowFailureReachesAll(id, cands, init, mem) ==
  IF init[id].ok THEN CollectReferencedLocalStatics(init[id].ptrs, cands, mem)
  ELSE [n \in DOMAIN cands |-> n]

\* One row of StaticRefGraph.succ.
EarlyRow(id, cands, init, mem) ==
  IF init[id].ok THEN CollectReferencedLocalStatics(init[id].ptrs, cands, mem)
  ELSE <<>>

EarlyGraph(cands, init, mem) ==
  [n \in DOMAIN cands |-> EarlyRow(cands[n], cands, init, mem)]

\* ------------------------------------------- the decomposition service
RECURSIVE ReachableFrom(_, _)
\* nodes reachable from the set S by zero or more edges of graph g
ReachableFrom(g, S) ==
  LET N == S \cup UNION {Range(g[x]) : x \in S}
  IN IF N = S THEN S ELSE ReachableFrom(g, N)

SccClassOf(g, u) ==
  {v \in ReachableFrom(g, {u}) : u \in ReachableFrom(g, {v})}

RECURSIVE Orders(_)
\* the duplicate-free sequences over all of S
Orders(S) ==
  IF S = {} THEN {<<>>}
  ELSE UNION {{<<x>> \o o : o \in Orders(S \ {x})} : x \in S}

\* Sccs::new: every node gets exactly one component index, two nodes the
\* same one iff each reaches the other; the indices are dense, in an order
\* the service chooses, and the first `empty` of them (at most
\* MaxEmptySccs, preallocated) have no node.
SccsNew(g) ==
  LET nodes == DOMAIN g
      classOf == [u \in nodes |-> SccClassOf(g, u)]
      classes == {classOf[u] : u \in nodes}
  IN {[num_sccs |-> empty + Len(order),
       scc |-> [u \in nodes |-> empty + GetIndexOf(order, classOf[u])]]
      : order \in Orders(classes), empty \in 0..MaxEmptySccs}

\* --------------------------------------------- early run: analysis, report
EarlyMembers(g, sccs) ==
  [c \in 1..sccs.num_sccs |->
     SelectSeq([i \in DOMAIN g |-> i], LAMBDA i : sccs.scc[i] = c)]

\* The singleton arm without its self-edge test.
EarlyAcyclicNoSelfEdge(g, nodes) ==
  CASE Len(nodes) = 0 -> TRUE
    [] Len(nodes) = 1 -> TRUE
    [] OTHER -> FALSE

EarlyAcyclic(g, nodes) ==
  CASE Len(nodes) = 0 -> TRUE
    [] Len(nodes) = 1 -> \A x \in Range(g[nodes[1]]) : x # nodes[1]
    [] OTHER -> FALSE

\* struct_span_err(head_span, ..).span_labels(..).note(..).emit(): the
\* diagnostic as the sink receives it; the token is its position there.
EarlyDiag(cands, nodes, sink) ==
  [run |-> "early", head |-> cands[nodes[1]],
   labels |-> [k \in DOMAIN nodes |-> cands[nodes[k]]],
   token |-> Len(sink) + 1]

RECURSIVE EarlyLoop(_, _, _, _, _)
\* `for scc in sccs.all_sccs()` from component c on: the sink afterwards
EarlyLoop(c, members, cands, g, sink) ==
  IF c > Len(members) THEN sink
  ELSE IF EarlyAcyclic(g, members[c]) THEN EarlyLoop(c + 1, members, cands, g, sink)
  ELSE EarlyLoop(c + 1, members, cands, g,
                 Append(sink, EarlyDiag(cands, members[c], sink)))

\* first_guar overwritten by each emit instead of get_or_insert.
EarlyResultLastToken(sink_before, sink_after) ==
  IF Len(sink_after) > Len(sink_before)
  THEN [ok |-> FALSE, guar |-> sink_after[Len(sink_after)].token]
  ELSE [ok |-> TRUE, guar |-> 0]

\* first_guar.get_or_insert(..), then the final match
EarlyResult(sink_before, sink_after) ==
  IF Len(sink_after) > Len(sink_before)
  THEN [ok |-> FALSE, guar |-> sink_after[Len(sink_before) + 1].token]
  ELSE [ok |-> TRUE, guar |-> 0]

NoTrav == [alloc_ids |-> <<>>, i |-> 1, referenced_nodes |-> <<>>, done |-> TRUE]

\* check_static_initializer_acyclic
EarlyCheck ==
  /\ pc = "start"
  /\ LET cands == EarlyStatics(hir_items)
     IN IF cands = <<>>
        THEN /\ e_statics' = cands
             /\ e_succ' = <<>>
             /\ diags' = diags
             /\ result' = [ok |-> TRUE, guar |-> 0]
        ELSE LET g == EarlyGraph(cands, static_init, memory)
             IN \E sccs \in SccsNew(g) :
                  LET sink == EarlyLoop(1, EarlyMembers(g, sccs), cands, g, diags)
                  IN /\ e_statics' = cands
                     /\ e_succ' = g
                     /\ diags' = sink
                     /\ result' = EarlyResult(diags, sink)
  /\ pc' = "early_done"
  /\ UNCHANGED <<hir_items, static_init, memory, acyclic_flag, mono_items,
                 used_map, l_statics, l_succ, aborted, trav>>

\* ------------------------------------------------- late run: the graph
\* The candidate set of the late run: the mono items of kind Static.
LateStatics(items) ==
  LET kept == SelectSeq(items, LAMBDA item : item[1] = "Static")
  IN IndexSetExtend(<<>>, [k \in DOMAIN kept |-> kept[k][2]])

\* A missing key read as an empty list of uses.
LateSuccessorsMissingIsEmpty(cands, umap, node_idx) ==
  LET item == MonoStatic(cands[node_idx])
      uses == IF item \in DOMAIN umap THEN umap[item] ELSE <<>>
      kept == SelectSeq(uses, LAMBDA m : m[1] = "Static" /\ GetIndexOf(cands, m[2]) # 0)
  IN [panic |-> FALSE,
      nodes |-> [k \in DOMAIN kept |-> GetIndexOf(cands, kept[k][2])]]

\* get_index_of unwrapped: a used static outside the candidate set panics.
LateSuccessorsUnwrap(cands, umap, node_idx) ==
  LET item == MonoStatic(cands[node_idx])
  IN IF item \notin DOMAIN umap THEN [panic |-> TRUE, nodes |-> <<>>]
     ELSE LET used == SelectSeq(umap[item], LAMBDA m : m[1] = "Static")
              kept == SelectSeq(used, LAMBDA m : GetIndexOf(cands, m[2]) # 0)
          IN [panic |-> Len(kept) # Len(used),
              nodes |-> [k \in DOMAIN kept |-> GetIndexOf(cands, kept[k][2])]]

\* StaticRefGraph::successors: indexing used_map panics on a missing key.
LateSuccessors(cands, umap, node_idx) ==
  LET item == MonoStatic(cands[node_idx])
  IN IF item \notin DOMAIN umap THEN [panic |-> TRUE, nodes |-> <<>>]
     ELSE LET kept == SelectSeq(umap[item],
                         LAMBDA m : m[1] = "Static" /\ GetIndexOf(cands, m[2]) # 0)
          IN [panic |-> FALSE,
              nodes |-> [k \in DOMAIN kept |-> GetIndexOf(cands, kept[k][2])]]

\* The rows Sccs::new reads: it asks for the successors of every node.
LateRows(cands, umap) ==
  [n \in DOMAIN cands |-> LateSuccessors(cands, umap, n)]

\* ---------------------------------------------- late run: analysis, report
LateMembers(g, sccs) ==
  [c \in 1..sccs.num_sccs |->
     SelectSeq([i \in DOMAIN g |-> i], LAMBDA i : sccs.scc[i] = c)]

LateAcyclic(g, nodes) ==
  CASE Len(nodes) = 0 -> TRUE
    [] Len(nodes) = 1 -> \A x \in Range(g[nodes[1]]) : x # nodes[1]
    [] OTHER -> FALSE

\* The diagnostic anchored on the last member instead of the first.
LateDiagAnchoredOnLast(cands, nodes, sink) ==
  [run |-> "late", head |-> cands[nodes[Len(nodes)]],
   labels |-> [k \in DOMAIN nodes |-> cands[nodes[k]]],
   token |-> Len(sink) + 1]

LateDiag(cands, nodes, sink) ==
  [run |-> "late", head |-> cands[nodes[1]],
   labels |-> [k \in DOMAIN nodes |-> cands[nodes[k]]],
   token |-> Len(sink) + 1]

RECURSIVE LateLoopSkippingReported(_, _, _, _, _)
\* The loop passing over a cycle whose anchor the sink already holds.
LateLoopSkippingReported(c, members, cands, g, sink) ==
  IF c > Len(members) THEN sink
  ELSE IF \/ LateAcyclic(g, members[c])
          \/ \E k \in DOMAIN sink : sink[k].head = cands[members[c][1]]
  THEN LateLoopSkippingReported(c + 1, members, cands, g, sink)
  ELSE LateLoopSkippingReported(c + 1, members, cands, g,
                                Append(sink, LateDiag(cands, members[c], sink)))

RECURSIVE LateLoop(_, _, _, _, _)
\* `for scc in sccs.all_sccs()` from component c on: the sink afterwards
LateLoop(c, members, cands, g, sink) ==
  IF c > Len(members) THEN sink
  ELSE IF LateAcyclic(g, members[c]) THEN LateLoop(c + 1, members, cands, g, sink)
  ELSE LateLoop(c + 1, members, cands, g,
                Append(sink, LateDiag(cands, members[c], sink)))

\* check_static_initializers_are_acyclic
LateCheck ==
  LET cands == LateStatics(mono_items)
      rows == LateRows(cands, used_map)
  IN IF cands = <<>>
     THEN /\ l_statics' = cands
          /\ l_succ' = <<>>
          /\ UNCHANGED <<diags, aborted>>
     ELSE IF \E n \in DOMAIN rows : rows[n].panic
     THEN /\ l_statics' = cands
          /\ l_succ' = <<>>
          /\ aborted' = TRUE
          /\ UNCHANGED diags
     ELSE LET g == [n \in DOMAIN rows |-> rows[n].nodes]
          IN \E sccs \in SccsNew(g) :
               /\ l_statics' = cands
               /\ l_succ' = g
               /\ diags' = LateLoop(1, LateMembers(g, sccs), cands, g, diags)
               /\ UNCHANGED aborted

\* The late check run whatever the target option says.
MonoItemGraphCheckUngated ==
  /\ pc = "early_done"
  /\ LateCheck
  /\ pc' = "done"
  /\ UNCHANGED <<hir_items, static_init, memory, acyclic_flag, mono_items,
                 used_map, e_statics, e_succ, result, trav>>

\* check_mono_item_graph -> do_target_specific_checks
MonoItemGraphCheck ==
  /\ pc = "early_done"
  /\ IF acyclic_flag THEN LateCheck
     ELSE UNCHANGED <<l_statics, l_succ, diags, aborted>>
  /\ pc' = "done"
  /\ UNCHANGED <<hir_items, static_init, memory, acyclic_flag, mono_items,
                 used_map, e_statics, e_succ, result, trav>>

\* ------------------------------------------------------------ input sets
RECURSIVE ListsUpTo(_, _)
\* the sequences over S of length at most k
ListsUpTo(S, k) ==
  IF k = 0 THEN {<<>>}
  ELSE LET P == ListsUpTo(S, k - 1)
       IN P \cup {Append(p, e) : p \in {q \in P : Len(q) = k - 1}, e \in S}

RECURSIVE SetsUpTo(_, _)
\* the subsets of S with at most k elements
SetsUpTo(S, k) ==
  IF k = 0 THEN {{}}
  ELSE LET P == SetsUpTo(S, k - 1) IN P \cup {p \cup {e} : p \in P, e \in S}

RECURSIVE Ascending(_)
\* the elements of a set of numbers, in increasing order
Ascending(S) ==
  IF S = {} THEN <<>>
  ELSE LET m == CHOOSE x \in S : \A y \in S : x <= y
       IN <<m>> \o Ascending(S \ {m})

RECURSIVE InSomeOrder(_)
\* the elements of a set in some fixed order
InSomeOrder(S) ==
  IF S = {} THEN <<>>
  ELSE LET m == CHOOSE x \in S : TRUE IN <<m>> \o InSomeOrder(S \ {m})

OrdersOfSubsets(S) == UNION {Orders(T) : T \in SUBSET S}

Reverse(seq) == [k \in DOMAIN seq |-> seq[Len(seq) + 1 - k]]

\* each subset of S in increasing and in decreasing order
UpAndDownOfSubsets(S) ==
  UNION {{Ascending(T), Reverse(Ascending(T))} : T \in SUBSET S}

\* the targets of the entries of `src`, in order
TargetsOf(entries, src) ==
  LET mine == SelectSeq(entries, LAMBDA e : e[1] = src)
  IN [k \in DOMAIN mine |-> mine[k][2]]

HirOf(order) == <<HirFn>> \o [k \in DOMAIN order |-> HirStatic(order[k])]

\* Nothing has run yet.
Idle ==
  /\ pc = "start"
  /\ e_statics = <<>>
  /\ e_succ = <<>>
  /\ l_statics = <<>>
  /\ l_succ = <<>>
  /\ diags = <<>>
  /\ result = [ok |-> TRUE, guar |-> 0]
  /\ aborted = FALSE
  /\ trav = NoTrav

InitOf(declared, failing, entries) ==
  [d \in LocalDefIds |->
     IF d \in failing THEN [ok |-> FALSE, ptrs |-> <<>>]
     ELSE [ok |-> TRUE,
           ptrs |-> IF d \in declared THEN TargetsOf(entries, StaticAlloc(d)) ELSE <<>>]]

\* the statics up to d
UpTo(d) == {x \in LocalDefIds : x <= d}

\* the sets of statics a crate may declare, up to a renaming of the statics
Prefixes == {{}} \cup {UpTo(d) : d \in LocalDefIds}

\* Early-phase inputs: the statics declared (in DefId order), the first of
\* them possibly failing to evaluate, at most MaxPtrs pointers over their
\* roots and the blobs; nothing is monomorphized.
InitEarly ==
  /\ \E declared \in Prefixes :
       /\ hir_items = HirOf(Ascending(declared))
       /\ \E entries \in ListsUpTo(({StaticAlloc(d) : d \in declared}
                                     \cup {MemoryAlloc(b) : b \in BlobIds})
                                    \X AllocIds, MaxPtrs),
             failing \in {{}, declared \cap UpTo(1)} :
            /\ static_init = InitOf(declared, failing, entries)
            /\ memory = [b \in BlobIds |-> TargetsOf(entries, MemoryAlloc(b))]
  /\ acyclic_flag = FALSE
  /\ mono_items = <<>>
  /\ used_map = <<>>
  /\ Idle

NextEarly == EarlyCheck

SpecEarly == InitEarly /\ [][NextEarly]_vars

\* Inside the early run, at the start of the traversal of the root of the
\* first candidate (static 1): the loop of collect_referenced_local_statics,
\* one iteration per step; at most MaxTravPtrs pointers over that root and
\* the blobs.
InitTrav ==
  /\ \E declared \in Prefixes \ {{}} :
       LET first == Ascending(declared)[1]
       IN /\ hir_items = HirOf(Ascending(declared))
          /\ \E ptrs \in SetsUpTo(({StaticAlloc(first)}
                                    \cup {MemoryAlloc(b) : b \in BlobIds})
                                   \X AllocIds, MaxTravPtrs) :
               LET entries == InSomeOrder(ptrs)
               IN /\ static_init = InitOf({first}, {}, entries)
                  /\ memory = [b \in BlobIds |-> TargetsOf(entries, MemoryAlloc(b))]
                  /\ trav = TravInit(TargetsOf(entries, StaticAlloc(first)))
          /\ e_statics = Ascending(declared)
  /\ acyclic_flag = FALSE
  /\ mono_items = <<>>
  /\ used_map = <<>>
  /\ pc = "collect"
  /\ e_succ = <<>>
  /\ l_statics = <<>>
  /\ l_succ = <<>>
  /\ diags = <<>>
  /\ result = [ok |-> TRUE, guar |-> 0]
  /\ aborted = FALSE

\* One iteration of the loop (the last one is the `break`).
TravIterate ==
  /\ pc = "collect"
  /\ ~trav.done
  /\ trav' = TravStep(trav, e_statics, memory)
  /\ UNCHANGED <<hir_items, static_init, memory, acyclic_flag, mono_items,
                 used_map, pc, e_statics, e_succ, l_statics, l_succ, diags,
                 result, aborted>>

NextTrav == TravIterate

\* The loop is straight-line code of one thread: it keeps running.
SpecTrav == InitTrav /\ [][NextTrav]_vars /\ WF_vars(TravIterate)

\* Late-phase inputs for a target with the flag: nothing declared in the
\* HIR; the mono items in increasing or decreasing DefId order, a usage
\* map of at most MaxUses entries (duplicates, functions and foreign
\* statics included) that may lack the entry of static 1.
InitLate ==
  /\ hir_items = <<HirFn>>
  /\ static_init = InitOf({}, {}, <<>>)
  /\ memory = [b \in BlobIds |-> <<>>]
  /\ acyclic_flag = TRUE
  /\ \E order \in UpAndDownOfSubsets(LocalDefIds) :
       LET items == {MonoStatic(order[k]) : k \in DOMAIN order}
       IN /\ mono_items = <<MonoFn>> \o [k \in DOMAIN order |-> MonoStatic(order[k])]
          /\ \E entries \in ListsUpTo(items \X MonoItems, MaxUses),
                missing \in {{}, items \cap {MonoStatic(1)}} :
               used_map = [m \in (items \cup {MonoFn}) \ missing |->
                             TargetsOf(entries, m)]
  /\ Idle

NextLate == EarlyCheck \/ MonoItemGraphCheck

SpecLate == InitLate /\ [][NextLate]_vars

\* One compilation: a reference relation of at most MaxEdges direct
\* references among the statics; the HIR declares some of them (in DefId
\* order), the monomorphized items hold some of them, in any order.
Init ==
  /\ \E edges \in SetsUpTo(LocalDefIds \X LocalDefIds, MaxEdges) :
       LET uses(d) == Ascending({e[2] : e \in {x \in edges : x[1] = d}})
       IN /\ static_init = [d \in LocalDefIds |->
                              [ok |-> TRUE,
                               ptrs |-> [k \in DOMAIN uses(d) |-> StaticAlloc(uses(d)[k])]]]
          /\ \E order \in OrdersOfSubsets(LocalDefIds) :
               /\ mono_items = <<MonoFn>> \o [k \in DOMAIN order |-> MonoStatic(order[k])]
               /\ used_map = [m \in {MonoStatic(order[k]) : k \in DOMAIN order} \cup {MonoFn} |->
                                IF m = MonoFn THEN <<>>
                                ELSE [k \in DOMAIN uses(m[2]) |-> MonoStatic(uses(m[2])[k])]]
  /\ \E declared \in SUBSET LocalDefIds : hir_items = HirOf(Ascending(declared))
  /\ memory = [b \in BlobIds |-> <<>>]
  /\ acyclic_flag \in BOOLEAN
  /\ Idle

Next == EarlyCheck \/ MonoItemGraphCheck

Spec == Init /\ [][Next]_vars

\* ------------------------------------------------ what the claims speak of
\* The edges of a run's graph, between the statics themselves.
EdgesOf(cands, g) ==
  UNION {{<<cands[u], cands[v]>> : v \in Range(g[u])} : u \in DOMAIN g}

RECURSIVE RelReach(_, _)
\* what the set S reaches by zero or more edges of the relation E
RelReach(E, S) ==
  LET N == S \cup {e[2] : e \in {x \in E : x[1] \in S}}
  IN IF N = S THEN S ELSE RelReach(E, N)

\* the strongly connected component of x
Component(E, x) == {y \in RelReach(E, {x}) : x \in RelReach(E, {y})}

\* the components of the candidates that hold a cycle
CyclicComponents(cands, E) ==
  {C \in {Component(E, x) : x \in Range(cands)} :
     Cardinality(C) >= 2 \/ \E x \in C : <<x, x>> \in E}

\* the diagnostics one run emitted, in emission order
DiagsOf(run) == SelectSeq(diags, LAMBDA d : d.run = run)

Labelled(run) == UNION {Range(DiagsOf(run)[k].labels) : k \in DOMAIN DiagsOf(run)}

EarlyRan == pc \in {"early_done", "done"}
LateRan == pc = "done" /\ acyclic_flag /\ ~aborted

\* one diagnostic per cyclic component, none for anything else
OnePerCyclicComponent(run, cands, g) ==
  LET ds == DiagsOf(run)
      cyc == CyclicComponents(cands, EdgesOf(cands, g))
  IN /\ Len(ds) = Cardinality(cyc)
     /\ \A C \in cyc : Cardinality({k \in DOMAIN ds : Range(ds[k].labels) = C}) = 1
     /\ \A k \in DOMAIN ds : ds[k].labels # <<>> /\ Range(ds[k].labels) \in cyc

\* C1: a run emits exactly one diagnostic for each strongly connected
\* component with two or more members or with one member and a self-edge,
\* and none for any other component, so the diagnostics of a run are as
\* many as the cyclic components (the loop goes on after the first one).
C1_OneDiagnosticPerCyclicComponent ==
  /\ EarlyRan => OnePerCyclicComponent("early", e_statics, e_succ)
  /\ LateRan => OnePerCyclicComponent("late", l_statics, l_succ)

\* Both runs went past their first diagnostic; the early run also saw a
\* candidate in no cycle.
C1_Witness ==
  /\ LateRan
  /\ Len(DiagsOf("early")) >= 2
  /\ Len(DiagsOf("late")) >= 2
  /\ Range(e_statics) \ Labelled("early") # {}

\* C2 as stated: the overall result is success unless either run emitted a
\* diagnostic, and the failure carries the token of the first diagnostic.
C2_AsStated ==
  pc = "done" =>
    /\ result.ok <=> diags = <<>>
    /\ (~result.ok /\ diags # <<>>) => result.guar = diags[1].token

\* C2, amended: the result is that of the early run alone. It is success
\* unless the early run emitted a diagnostic, and then a failure carrying
\* the token of the first diagnostic the early run emitted, whatever it
\* emits after it; the late run returns nothing, whatever it emits.
C2_EarlyResultIsFirstEarlyToken ==
  EarlyRan =>
    LET ds == DiagsOf("early")
    IN /\ result.ok <=> ds = <<>>
       /\ ds # <<>> => result.guar = ds[1].token
       /\ \A j, k \in DOMAIN diags : j # k => diags[j].token # diags[k].token

C2_Witness ==
  /\ pc = "done"
  /\ ~result.ok
  /\ Len(DiagsOf("early")) >= 2
  /\ Len(DiagsOf("late")) >= 1

\* C5: without the target flag the late run does not execute and emits
\* nothing; a cycle whose members are all outside the early candidate set
\* gets no early diagnostic and, with the flag, exactly the late one.
C5_LateRunGatedByFlag ==
  /\ ~acyclic_flag => DiagsOf("late") = <<>> /\ l_statics = <<>> /\ ~aborted
  /\ Labelled("early") \subseteq Range(e_statics)
  /\ LateRan =>
       \A C \in CyclicComponents(l_statics, EdgesOf(l_statics, l_succ)) :
         C \cap Range(e_statics) = {} =>
           /\ C \cap Labelled("early") = {}
           /\ \E k \in DOMAIN DiagsOf("late") : Range(DiagsOf("late")[k].labels) = C

\* A cycle among statics the HIR does not declare: only the late run
\* reports it.
C5_Witness ==
  /\ LateRan
  /\ e_statics # <<>>
  /\ DiagsOf("early") = <<>>
  /\ \E k \in DOMAIN DiagsOf("late") :
       /\ Len(DiagsOf("late")[k].labels) >= 2
       /\ Range(DiagsOf("late")[k].labels) \cap Range(e_statics) = {}

\* the shape the claims give a diagnostic of a run over cands and g
WellAnchored(d, cands, g) ==
  /\ d.labels # <<>>
  /\ d.head = d.labels[1]
  /\ \A k \in 1..(Len(d.labels) - 1) :
       GetIndexOf(cands, d.labels[k]) < GetIndexOf(cands, d.labels[k + 1])
  /\ Range(d.labels) = Component(EdgesOf(cands, g), d.head)

AnchorsAndLabels(run, cands, g) ==
  LET ds == DiagsOf(run)
  IN /\ \A k \in DOMAIN ds : WellAnchored(ds[k], cands, g)
     /\ \A j, k \in DOMAIN ds : j # k => Range(ds[j].labels) \cap Range(ds[k].labels) = {}

\* C8: a diagnostic is anchored on the member of its component with the
\* lowest handle, labels every member of that component once (the anchor
\* too), labels no static of another component, and within a run a static
\* is labelled by at most one diagnostic.
C8_AnchorIsLowestHandleLabelsAreTheComponent ==
  /\ EarlyRan => AnchorsAndLabels("early", e_statics, e_succ)
  /\ LateRan => AnchorsAndLabels("late", l_statics, l_succ)

\* Two late diagnostics, one of them for a two-member cycle whose anchor is
\* not the member with the lowest DefId.
C8_Witness ==
  /\ LateRan
  /\ Len(DiagsOf("late")) >= 2
  /\ \E k \in DOMAIN DiagsOf("late") :
       LET d == DiagsOf("late")[k]
       IN Len(d.labels) >= 2 /\ d.head > d.labels[2]

\* what a run reported, token and run aside
Reports(run) ==
  {[head |-> DiagsOf(run)[k].head, labels |-> DiagsOf(run)[k].labels]
     : k \in DOMAIN DiagsOf(run)}

SameInputs ==
  /\ e_statics = l_statics
  /\ EdgesOf(e_statics, e_succ) = EdgesOf(l_statics, l_succ)

\* C10: on the same candidates in the same order with the same edges the
\* two runs report the same components with the same anchor and members,
\* each run emitting its own diagnostic (two per cycle in all); the late
\* run adds to the sink after the early diagnostics and leaves them alone.
C10_RunsIndependentSameAnalysis ==
  /\ LateRan /\ SameInputs =>
       /\ Reports("early") = Reports("late")
       /\ Len(DiagsOf("late")) = Len(DiagsOf("early"))
       /\ Len(diags) = 2 * Cardinality(Reports("early"))
  /\ EarlyRan => diags = DiagsOf("early") \o DiagsOf("late")
  /\ \A k \in DOMAIN diags : diags[k].token = k

C10_Witness ==
  /\ LateRan /\ SameInputs
  /\ Len(e_statics) >= 2
  /\ Len(DiagsOf("early")) >= 1
  /\ Len(diags) = 2 * Len(DiagsOf("early"))

\* ------------------------------------------------------ the early builder
RECURSIVE BlobClosure(_, _)
\* the allocations a set of allocations leads to through blobs alone
BlobClosure(mem, X) ==
  LET N == X \cup UNION {Range(mem[a[2]]) : a \in {x \in X : x[1] = "Memory"}}
  IN IF N = X THEN X ELSE BlobClosure(mem, N)

\* the candidate statics at the end of a path of references from the root
\* of S whose intermediate allocations are all blobs
ReachedThroughBlobs(S) ==
  {v \in Range(e_statics) :
     StaticAlloc(v) \in BlobClosure(memory, Range(static_init[S].ptrs))}

\* C3: the row of a candidate S whose evaluation succeeds holds exactly the
\* candidate statics reached from the root of S through blobs alone (a
\* static is recorded and not expanded; functions, foreign statics and
\* statics outside the candidate set give no edge); so S -> blob -> S is
\* the self-edge S -> S and S is reported.
C3_RowIsReachThroughBlobs ==
  (pc = "early_done") =>
    \A n \in DOMAIN e_statics :
      LET S == e_statics[n]
      IN static_init[S].ok =>
           /\ {e_statics[v] : v \in Range(e_succ[n])} = ReachedThroughBlobs(S)
           /\ Cardinality(Range(e_succ[n])) = Len(e_succ[n])
           /\ (\E b \in BlobIds : /\ MemoryAlloc(b) \in Range(static_init[S].ptrs)
                                  /\ StaticAlloc(S) \in Range(memory[b]))
                => n \in Range(e_succ[n]) /\ S \in Labelled("early")

\* S points to a blob only and the blob points back to S: the one-member
\* cycle of S is reported.
C3_Witness ==
  /\ pc = "early_done"
  /\ \E S \in Range(e_statics), b \in BlobIds :
       /\ Range(static_init[S].ptrs) = {MemoryAlloc(b)}
       /\ StaticAlloc(S) \in Range(memory[b])
       /\ \E k \in DOMAIN diags : diags[k].labels = <<S>>

\* C6: a candidate S whose evaluation fails gets an empty row, the result
\* reports no evaluation failure (it is an error only if a cycle was
\* diagnosed), the graph is the one built had S evaluated to an allocation
\* without pointers, the cycles among the other candidates are diagnosed,
\* and S is a member of none.
C6_EvalFailureIsAnEmptyRow ==
  (pc = "early_done") =>
    \A n \in DOMAIN e_statics :
      LET S == e_statics[n]
      IN ~static_init[S].ok =>
           /\ e_succ[n] = <<>>
           /\ result.ok <=> DiagsOf("early") = <<>>
           /\ e_succ = EarlyGraph(e_statics,
                                  [static_init EXCEPT ![S] = [ok |-> TRUE, ptrs |-> <<>>]],
                                  memory)
           /\ OnePerCyclicComponent("early", e_statics, e_succ)
           /\ S \notin Labelled("early")

\* S fails to evaluate, another candidate refers to S and is in a cycle
\* that is diagnosed.
C6_Witness ==
  /\ pc = "early_done"
  /\ \E n, m \in DOMAIN e_statics :
       /\ ~static_init[e_statics[n]].ok
       /\ n \in Range(e_succ[m])
       /\ e_statics[m] \in Labelled("early")

\* --------------------------------------------------------- the late builder
LateCandidates == {m[2] : m \in {x \in Range(mono_items) : x[1] = "Static"}}

UsageIsTotal == \A d \in LateCandidates : MonoStatic(d) \in DOMAIN used_map

\* C7: with the flag set and a candidate set that is not empty, a static of
\* the candidate set without an entry in the usage map makes the late run
\* abort, with no diagnostic emitted; a usage map total over the candidate
\* set never makes it abort.
C7_MissingUsageEntryAborts ==
  /\ (pc = "done" /\ acyclic_flag /\ LateCandidates # {}) =>
       /\ aborted <=> ~UsageIsTotal
       /\ aborted => DiagsOf("late") = <<>>
  /\ (pc # "done" \/ ~acyclic_flag) => ~aborted

\* One static has no entry while another one uses itself: the run aborts
\* and the cycle goes unreported.
C7_Witness ==
  /\ pc = "done"
  /\ aborted
  /\ \E d \in LateCandidates :
       /\ MonoStatic(d) \in DOMAIN used_map
       /\ MonoStatic(d) \in Range(used_map[MonoStatic(d)])

\* the usage relation with duplicates removed and the entries that are not
\* statics of the candidate set dropped
NormalizedUses ==
  {e \in LateCandidates \X LateCandidates :
     MonoStatic(e[1]) \in DOMAIN used_map /\ MonoStatic(e[2]) \in Range(used_map[MonoStatic(e[1])])}

\* the anchor and members the claims give each cyclic component
ExpectedReports(cands, E) ==
  {[head |-> cands[CHOOSE i \in DOMAIN cands :
                     /\ cands[i] \in C
                     /\ \A j \in DOMAIN cands : cands[j] \in C => i <= j],
    members |-> C] : C \in CyclicComponents(cands, E)}

\* C9: duplicate entries and entries that are not statics of the candidate
\* set are tolerated: with a usage map total over the candidate set the
\* late run does not abort and its diagnostics (components, anchors,
\* members) are those of the normalized usage relation.
C9_DuplicatesAndStrangersTolerated ==
  (pc = "done" /\ acyclic_flag /\ UsageIsTotal) =>
    /\ ~aborted
    /\ {[head |-> DiagsOf("late")[k].head, members |-> Range(DiagsOf("late")[k].labels)]
          : k \in DOMAIN DiagsOf("late")}
         = ExpectedReports(l_statics, NormalizedUses)
    /\ Len(DiagsOf("late")) = Cardinality(ExpectedReports(l_statics, NormalizedUses))

\* A static whose list of uses holds an entry twice and an entry that is
\* no candidate static is reported in a cycle.
C9_Witness ==
  /\ pc = "done"
  /\ \E d \in LateCandidates :
       LET uses == used_map[MonoStatic(d)]
       IN /\ MonoStatic(d) \in DOMAIN used_map
          /\ d \in Labelled("late")
          /\ \E j, k \in DOMAIN uses : j # k /\ uses[j] = uses[k]
          /\ \E k \in DOMAIN uses : uses[k] \notin {MonoStatic(c) : c \in LateCandidates}

\* ------------------------------------------------------------ the traversal
NoDuplicates(seq) == \A j, k \in DOMAIN seq : j # k => seq[j] # seq[k]

\* the frontier is a duplicate-free set within the universe of allocation
\* identities, and the index is at most one past its last element
TravBounded ==
  /\ NoDuplicates(trav.alloc_ids)
  /\ Range(trav.alloc_ids) \subseteq AllocIds
  /\ trav.i \in 1..(Len(trav.alloc_ids) + 1)
  /\ trav.done => trav.i = Len(trav.alloc_ids) + 1

\* C4: the traversal terminates whatever the blobs refer to, themselves and
\* each other included: the frontier stays a duplicate-free set of
\* allocation identities, each step classifies the next index (so each
\* identity once), and the scan ends when the index passes the last one.
C4_TraversalTerminates ==
  /\ []TravBounded
  /\ [][trav'.i = trav.i + 1 \/ (trav'.done /\ trav.i > Len(trav.alloc_ids))]_vars
  /\ <>(trav.done)

\* The scan is over and it went through two blobs that refer to each other.
C4_Witness ==
  /\ trav.done
  /\ pc = "collect"
  /\ \E a, b \in BlobIds :
       /\ a # b
       /\ MemoryAlloc(a) \in Range(memory[b])
       /\ MemoryAlloc(b) \in Range(memory[a])
       /\ {MemoryAlloc(a), MemoryAlloc(b)} \subseteq Range(trav.alloc_ids)

====
